---------------------------- MODULE Spec2Model ----------------------------
(***************************************************************************)
(* A model of gg-config (src/main.go): an interactive wizard that reads    *)
(* global variables, file descriptors and command hooks from standard      *)
(* input and writes them as one JSON document.                             *)
(*                                                                         *)
(* Strings are sequences of one-character strings, so that the parsers of  *)
(* strconv, strings and fmt can be modelled character by character.        *)
(***************************************************************************)
EXTENDS Integers, Sequences, FiniteSets, TLC

(***************************************************************************)
(* Characters                                                              *)
(***************************************************************************)
DecDigits == <<"0", "1", "2", "3", "4", "5", "6", "7", "8", "9">>

HexLetters == <<"a", "b", "c", "d", "e", "f">>

UpperLetters == <<"A", "B", "C", "D", "E", "F", "G", "H", "I", "J", "K", "L", "M",
                  "N", "O", "P", "Q", "R", "S", "T", "U", "V", "W", "X", "Y", "Z">>

LowerLetters == <<"a", "b", "c", "d", "e", "f", "g", "h", "i", "j", "k", "l", "m",
                  "n", "o", "p", "q", "r", "s", "t", "u", "v", "w", "x", "y", "z">>

IndexOf(seq, c) == CHOOSE i \in 1..Len(seq) : seq[i] = c

Range(seq) == {seq[i] : i \in 1..Len(seq)}

IsDigit(c) == c \in Range(DecDigits)

DigitVal(c) == IndexOf(DecDigits, c) - 1

\* strconv's lower(c): ASCII upper case to lower case, everything else as is
lower(c) == IF c \in Range(UpperLetters) THEN LowerLetters[IndexOf(UpperLetters, c)] ELSE c

IsHexDigit(c) == IsDigit(c) \/ lower(c) \in Range(HexLetters)

HexVal(c) == IF IsDigit(c) THEN DigitVal(c) ELSE 9 + IndexOf(HexLetters, lower(c))

\* unicode white space as strings.Fields and fmt's isSpace see it: space, \t,
\* \n, \v, \f, \r, U+0085, U+00A0 and U+1680. The white space from U+2000 on
\* (U+2000 to U+200A, U+2028, U+2029, U+202F, U+205F, U+3000) is no character
\* of a TLA+ string, so no line or token of this module holds it.
IsSpace(c) == c \in {" ", "\t", "\n", "", "\f", "\r", "", " ", " "}

Drop(s, n) == SubSeq(s, n + 1, Len(s))

Take(s, n) == SubSeq(s, 1, n)


(***************************************************************************)
(* Typed values (Go's `any` holding bool, int64, float64 or string).       *)
(* An int64 is kept as sign and decimal magnitude without leading zeros; a *)
(* float64 as its class and, when finite, the shortest decimal number      *)
(* mant * 10^exp that rounds to it, with mant free of leading and trailing *)
(* zeros (zero is the empty mant): one value for each float64.             *)
(***************************************************************************)
BoolV(b) == [kind |-> "bool", b |-> b]

IntV(neg, mag) == [kind |-> "int", neg |-> neg, mag |-> mag]

FloatV(cls, neg, mant, exp) == [kind |-> "float", cls |-> cls, neg |-> neg, mant |-> mant, exp |-> exp]

StrV(s) == [kind |-> "string", s |-> s]

Fail == [ok |-> FALSE]

Ok(v) == [ok |-> TRUE, val |-> v]

(***************************************************************************)
(* Decimal digit strings: natural numbers of any size as their digits, the *)
(* most significant first. The operators work on all digits at once, so    *)
(* that numbers of several hundred digits (5^1074 has 751) are within      *)
(* reach.                                                                  *)
(***************************************************************************)
\* d without its leading zeros, but for the last digit
StripLeadingZeros(d) ==
    IF Len(d) <= 1 THEN d
    ELSE IF \A i \in 1..Len(d) : d[i] = "0" THEN <<"0">>
    ELSE Drop(d, (CHOOSE i \in 1..Len(d) : d[i] # "0" /\ \A j \in 1..(i - 1) : d[j] = "0") - 1)

\* -1, 0, 1 as a < b, a = b, a > b, digit by digit
CmpSameLen(a, b) ==
    IF a = b THEN 0
    ELSE LET i == CHOOSE k \in 1..Len(a) : a[k] # b[k] /\ \A j \in 1..(k - 1) : a[j] = b[j]
         IN  IF DigitVal(a[i]) < DigitVal(b[i]) THEN -1 ELSE 1

\* -1, 0, 1 as a < b, a = b, a > b, for magnitudes without leading zeros
CmpMag(a, b) ==
    IF Len(a) < Len(b) THEN -1
    ELSE IF Len(a) > Len(b) THEN 1
    ELSE CmpSameLen(a, b)

RECURSIVE IntDigits(_)
IntDigits(n) == IF n = 0 THEN <<>> ELSE IntDigits(n \div 10) \o <<DecDigits[(n % 10) + 1]>>

Zeros(n) == [i \in 1..n |-> "0"]

\* a natural number as its digits without leading zeros, zero as <<>>
Norm(d) == LET t == StripLeadingZeros(d) IN IF t = <<"0">> THEN <<>> ELSE t

LastVal(d) == IF d = <<>> THEN 0 ELSE DigitVal(d[Len(d)])

\* the value of the i-th digit from the right of d, 0 beyond its first digit
Place(d, i) == IF i <= Len(d) THEN DigitVal(d[Len(d) + 1 - i]) ELSE 0

\* the sequence f held by its elements (a function written [i \in 1..n |-> e]
\* is held by its rule e, worked out anew for every f[i])
Held(f) == <<>> \o f

\* places holding any integers brought near to digits: each round leaves
\* v % 10 in a place and moves v \div 10 (negative for a borrow) one place up,
\* until the places hold -1..9 (a borrow left to take) or 0..10 (a carry)
RECURSIVE Carry(_)
Carry(v) ==
    IF \A i \in 1..Len(v) : v[i] >= -1 /\ v[i] <= 10 THEN v
    ELSE Carry(Held([i \in 1..(Len(v) + 1) |->
                       (IF i = 1 THEN 0 ELSE v[i - 1] % 10) + (IF i > Len(v) THEN 0 ELSE v[i] \div 10)]))

\* the last carries (or borrows) taken: the one into a place comes from the
\* nearest place below that does not just hand on what it gets (a 9 under
\* carries, a 0 under borrows)
Settle(v) ==
    LET n       == Len(v)
        neutral == IF \E i \in 1..n : v[i] < 0 THEN 0 ELSE 9
        in(i)   == IF \A k \in (i + 1)..n : v[k] = neutral THEN 0
                   ELSE v[CHOOSE j \in (i + 1)..n :
                            v[j] # neutral /\ \A k \in (i + 1)..(j - 1) : v[k] = neutral] \div 10
    IN  [i \in 1..n |-> (v[i] + in(i)) % 10]

Digits(v) ==
    LET c == Held(Settle(<<0>> \o Carry(Held(v))))
    IN  Norm(Held([i \in 1..Len(c) |-> DecDigits[c[i] + 1]]))

Longer(a, b) == IF Len(a) > Len(b) THEN Len(a) ELSE Len(b)

\* the digits of d * k + c, for a small factor k and carry c
MulAdd(d, k, c) ==
    IF d = <<>> THEN IntDigits(c)
    ELSE Digits([i \in 1..(Len(d) + 1) |-> (IF i = 1 THEN 0 ELSE DigitVal(d[i - 1]) * k)
                                      + (IF i = Len(d) + 1 THEN c ELSE 0)])

\* the digits of a + b + c
AddMag(a, b, c) ==
    LET n == Longer(a, b) + 1
    IN  IF a = <<>> /\ c = 0 THEN b
        ELSE IF b = <<>> /\ c = 0 THEN a
        ELSE Digits([i \in 1..n |-> Place(a, n + 1 - i) + Place(b, n + 1 - i) + (IF i = n THEN c ELSE 0)])

\* the digits of a - b, for a >= b
SubMag(a, b) ==
    LET n == Longer(a, b) + 1
    IN  IF a = b THEN <<>>
        ELSE IF b = <<>> THEN a
        ELSE Digits([i \in 1..n |-> Place(a, n + 1 - i) - Place(b, n + 1 - i)])

\* the sum of a[i] * b[t + 1 - i] for i in lo..hi, eight parts at a time
RECURSIVE SumProd(_, _, _, _, _)
SumProd(a, b, t, lo, hi) ==
    LET w       == ((hi - lo) \div 8) + 1
        part(j) == SumProd(a, b, t, lo + j * w, IF lo + j * w + w - 1 < hi THEN lo + j * w + w - 1 ELSE hi)
    IN  IF lo > hi THEN 0
        ELSE IF lo = hi THEN DigitVal(a[lo]) * DigitVal(b[t + 1 - lo])
        ELSE part(0) + part(1) + part(2) + part(3) + part(4) + part(5) + part(6) + part(7)

\* the digits of a * b
BigMul(a, b) ==
    IF a = <<>> \/ b = <<>> THEN <<>>
    ELSE Digits([t \in 1..(Len(a) + Len(b) - 1) |->
                   SumProd(a, b, t, IF t > Len(b) THEN t + 1 - Len(b) ELSE 1,
                           IF t < Len(a) THEN t ELSE Len(a))])

\* acc^(2^(j + 1)) * k^(n % 2^(j + 1)): the bits of n from bit j down, the
\* power squared for each and multiplied by k for a bit that is set
RECURSIVE PowBits(_, _, _, _)
PowBits(acc, k, n, j) ==
    IF j < 0 \/ acc = <<>> THEN acc
    ELSE PowBits(IF (n \div 2^j) % 2 = 1 THEN MulAdd(BigMul(acc, acc), k, 0) ELSE BigMul(acc, acc),
                 k, n, j - 1)

\* the highest bit set in n (-1 for n = 0), n < 2^30
TopBit(n) == Cardinality({j \in 0..29 : 2^j <= n}) - 1

\* the digits of k^n
Pow(k, n) == PowBits(<<"1">>, k, n, TopBit(n))

\* the digits of d * k^n
MulPow(d, k, n) == BigMul(d, Pow(k, n))

\* one step of long division: d goes k times (below ten) into st.r, k is
\* the next digit of the quotient st.q, and the rest is the new st.r
DivStep(st, d) ==
    LET k == Cardinality({j \in 1..9 : CmpMag(MulAdd(d, j, 0), st.r) <= 0})
    IN  [q |-> st.q \o <<DecDigits[k + 1]>>,
         r |-> IF k = 0 THEN st.r ELSE SubMag(st.r, MulAdd(d, k, 0))]

\* long division of st.r by d for a quotient below 10^(i + 1): the digits
\* from the place of 10^i down are added to st.q, the remainder is st.r
RECURSIVE DivMod(_, _, _)
DivMod(st, d, i) ==
    IF i < 0 THEN st
    ELSE IF st.r = <<>> THEN [q |-> st.q \o Zeros(i + 1), r |-> <<>>]
    ELSE DivMod(DivStep(st, d \o Zeros(i)), d, i - 1)

(***************************************************************************)
(* strconv.ParseBool                                                       *)
(***************************************************************************)
TrueLiterals == {<<"1">>, <<"t">>, <<"T">>, <<"T", "R", "U", "E">>,
                 <<"t", "r", "u", "e">>, <<"T", "r", "u", "e">>}

FalseLiterals == {<<"0">>, <<"f">>, <<"F">>, <<"F", "A", "L", "S", "E">>,
                  <<"f", "a", "l", "s", "e">>, <<"F", "a", "l", "s", "e">>}

ParseBool(str) ==
    IF str \in TrueLiterals THEN Ok(BoolV(TRUE))
    ELSE IF str \in FalseLiterals THEN Ok(BoolV(FALSE))
    ELSE Fail

(***************************************************************************)
(* strconv.ParseInt(s, 10, 64)                                             *)
(***************************************************************************)
\* 1 << 63, the cutoff of ParseInt for bitSize 64
Cutoff64 == <<"9", "2", "2", "3", "3", "7", "2", "0", "3", "6",
              "8", "5", "4", "7", "7", "5", "8", "0", "8">>

\* ParseUint(s, 10, 64) up to its range check: the magnitude, or a syntax error
ParseUint(s) ==
    IF s = <<>> \/ \E i \in 1..Len(s) : ~IsDigit(s[i]) THEN Fail
    ELSE [ok |-> TRUE, mag |-> StripLeadingZeros(s)]

ParseInt(s) ==
    IF s = <<>> THEN Fail
    ELSE LET neg  == s[1] = "-"
             body == IF s[1] \in {"+", "-"} THEN Tail(s) ELSE s
             un   == ParseUint(body)
         IN  IF ~un.ok THEN Fail
             ELSE IF ~neg /\ CmpMag(un.mag, Cutoff64) >= 0 THEN Fail
             ELSE IF neg /\ CmpMag(un.mag, Cutoff64) > 0 THEN Fail
             ELSE Ok(IntV(neg /\ un.mag # <<"0">>, un.mag))

(***************************************************************************)
(* strconv.ParseFloat(s, 64)                                               *)
(***************************************************************************)
Infinity == <<"i", "n", "f", "i", "n", "i", "t", "y">>

NaN == <<"n", "a", "n">>

RECURSIVE commonPrefixLenIgnoreCase(_, _)
commonPrefixLenIgnoreCase(s, prefix) ==
    IF s = <<>> \/ prefix = <<>> \/ lower(s[1]) # prefix[1] THEN 0
    ELSE 1 + commonPrefixLenIgnoreCase(Tail(s), Tail(prefix))

\* special: the optionally signed Inf/Infinity and NaN; n is the length consumed
special(s) ==
    IF s = <<>> THEN [ok |-> FALSE, n |-> 0]
    ELSE LET signed == s[1] \in {"+", "-"}
             nsign  == IF signed THEN 1 ELSE 0
             body   == IF signed THEN Tail(s) ELSE s
             p      == commonPrefixLenIgnoreCase(body, Infinity)
             n      == IF 3 < p /\ p < 8 THEN 3 ELSE p
         IN  IF signed \/ s[1] \in {"i", "I"}
             THEN IF n = 3 \/ n = 8
                  THEN [ok |-> TRUE, n |-> nsign + n,
                        val |-> FloatV("inf", s[1] = "-", <<>>, 0)]
                  ELSE [ok |-> FALSE, n |-> 0]
             ELSE IF s[1] \in {"n", "N"} /\ commonPrefixLenIgnoreCase(s, NaN) = 3
             THEN [ok |-> TRUE, n |-> 3, val |-> FloatV("nan", FALSE, <<>>, 0)]
             ELSE [ok |-> FALSE, n |-> 0]

\* the digits of a mantissa: hexadecimal ones after 0x
MantissaDigits(read, hex) == IF hex THEN SelectSeq(read, IsHexDigit) ELSE SelectSeq(read, IsDigit)

\* the end of readFloat's mantissa loop from index i: the first character
\* that is no digit, '_' or '.', or that is a second '.'
MantissaEnd(s, i, hex) ==
    LET stops(k) == k > Len(s) \/ ~(IsDigit(s[k]) \/ (hex /\ IsHexDigit(s[k])) \/ s[k] \in {"_", "."})
                        \/ (s[k] = "." /\ \E m \in i..(k - 1) : s[m] = ".")
    IN  CHOOSE k \in i..(Len(s) + 1) : stops(k) /\ \A m \in i..(k - 1) : ~stops(m)

\* the place of the '.' among the characters read, or one beyond them
DotAt(read) ==
    IF \E k \in 1..Len(read) : read[k] = "." THEN CHOOSE k \in 1..Len(read) : read[k] = "."
    ELSE Len(read) + 1

\* the state of readFloat after the characters read up to index j: sawdot,
\* sawdigits, the digits read, the number of them after the point, and
\* whether an underscore was seen
Mantissa(st, hex, read, j) ==
    [st EXCEPT !.i = j,
               !.sawdot = DotAt(read) <= Len(read),
               !.sawdigits = MantissaDigits(read, hex) # <<>>,
               !.digits = MantissaDigits(read, hex),
               !.nfrac = Len(MantissaDigits(Drop(read, DotAt(read)), hex)),
               !.underscores = \E k \in 1..Len(read) : read[k] = "_"]

\* readFloat's mantissa loop from index i
readMantissa(s, i, hex, st) ==
    Mantissa(st, hex, SubSeq(s, i, MantissaEnd(s, i, hex) - 1), MantissaEnd(s, i, hex))

\* the number a few decimal digits denote
RECURSIVE DecVal(_)
DecVal(d) == IF d = <<>> THEN 0 ELSE DecVal(Take(d, Len(d) - 1)) * 10 + LastVal(d)

\* the end of readFloat's exponent loop from index i: the first character
\* that is no digit or '_'
ExponentEnd(s, i) ==
    LET stops(k) == k > Len(s) \/ ~(IsDigit(s[k]) \/ s[k] = "_")
    IN  CHOOSE k \in i..(Len(s) + 1) : stops(k) /\ \A m \in i..(k - 1) : ~stops(m)

\* the state of readFloat after the exponent digits among the characters
\* read up to index j: e stops growing at 10000, which the fifth digit after
\* the leading zeros reaches
Exponent(st, read, j, digits) ==
    [st EXCEPT !.i = j,
               !.underscores = @ \/ \E k \in 1..Len(read) : read[k] = "_",
               !.e = DecVal(IF Len(digits) > 5 THEN Take(digits, 5) ELSE digits)]

\* readFloat's exponent digits from index i
readExponent(s, i, st) ==
    Exponent(st, SubSeq(s, i, ExponentEnd(s, i) - 1), ExponentEnd(s, i),
             Norm(SelectSeq(SubSeq(s, i, ExponentEnd(s, i) - 1), IsDigit)))

\* underscoreOK: underscores only between digits or right after a base prefix.
\* saw is the class of the character before s: "0" a digit, "_" an underscore,
\* "!" another character, "^" the beginning
underscoreScan(s, hex, saw) ==
    LET cls(k) == IF k = 0 THEN saw
                  ELSE IF IsDigit(s[k]) \/ (hex /\ IsHexDigit(s[k])) THEN "0"
                  ELSE IF s[k] = "_" THEN "_"
                  ELSE "!"
    IN  /\ cls(Len(s)) # "_"
        /\ \A k \in 1..Len(s) : /\ cls(k) = "_" => cls(k - 1) = "0"
                                /\ cls(k) = "!" => cls(k - 1) # "_"

underscoreOK(s) ==
    LET t      == IF s # <<>> /\ s[1] \in {"+", "-"} THEN Tail(s) ELSE s
        prefix == Len(t) >= 2 /\ t[1] = "0" /\ lower(t[2]) \in {"b", "o", "x"}
    IN  IF prefix THEN underscoreScan(Drop(t, 2), lower(t[2]) = "x", "0")
        ELSE underscoreScan(t, FALSE, "^")

\* readFloat's result r after the mantissa and the exponent: the underscores
\* are checked last
readFloatEnd(s, neg, hex, r, hasExp, eneg) ==
    IF r.underscores /\ ~underscoreOK(Take(s, r.i - 1)) THEN [ok |-> FALSE, i |-> 1]
    ELSE [ok |-> TRUE, i |-> r.i, neg |-> neg, hex |-> hex, digits |-> r.digits,
          nfrac |-> r.nfrac, e |-> IF hasExp /\ eneg THEN 0 - r.e ELSE IF hasExp THEN r.e ELSE 0]

\* readFloat after the mantissa m: the optional exponent (required after 0x)
readFloatExp(s, neg, hex, m) ==
    LET hasExp == m.i <= Len(s) /\ lower(s[m.i]) = (IF hex THEN "p" ELSE "e")
        esign  == m.i + 1 <= Len(s) /\ s[m.i + 1] \in {"+", "-"}
        eneg   == m.i + 1 <= Len(s) /\ s[m.i + 1] = "-"
        i2     == IF esign THEN m.i + 2 ELSE m.i + 1
    IN  IF ~m.sawdigits THEN [ok |-> FALSE, i |-> 1]
        ELSE IF hasExp /\ (i2 > Len(s) \/ ~IsDigit(s[i2])) THEN [ok |-> FALSE, i |-> 1]
        ELSE IF ~hasExp /\ hex THEN [ok |-> FALSE, i |-> 1]
        ELSE IF hasExp THEN readFloatEnd(s, neg, hex, readExponent(s, i2, m), TRUE, eneg)
        ELSE readFloatEnd(s, neg, hex, m, FALSE, FALSE)

\* readFloat: sign, optional 0x, mantissa, optional exponent
readFloat(s) ==
    LET signed == s # <<>> /\ s[1] \in {"+", "-"}
        i0     == IF signed THEN 2 ELSE 1
        hex    == i0 + 2 <= Len(s) /\ s[i0] = "0" /\ lower(s[i0 + 1]) = "x"
        i1     == IF hex THEN i0 + 2 ELSE i0
    IN  IF s = <<>> THEN [ok |-> FALSE, i |-> 1]
        ELSE readFloatExp(s, s[1] = "-", hex,
                 readMantissa(s, i1, hex,
                     [i |-> i1, sawdot |-> FALSE, sawdigits |-> FALSE, digits |-> <<>>,
                      nfrac |-> 0, underscores |-> FALSE, e |-> 0]))

StripTrailingZeros(d) ==
    IF \A i \in 1..Len(d) : d[i] = "0" THEN <<>>
    ELSE Take(d, CHOOSE i \in 1..Len(d) : d[i] # "0" /\ \A j \in (i + 1)..Len(d) : d[j] = "0")

\* the decimal digits of the number the hexadecimal digits h denote: the
\* first half times 16 to the length of the second, plus the second
RECURSIVE HexToDec(_)
HexToDec(h) ==
    IF h = <<>> THEN <<>>
    ELSE IF Len(h) = 1 THEN Norm(IntDigits(HexVal(h[1])))
    ELSE AddMag(MulPow(HexToDec(Take(h, Len(h) \div 2)), 16, Len(h) - (Len(h) \div 2)),
                HexToDec(Drop(h, Len(h) \div 2)), 0)

\* the number digits * 10^exp in canonical form: [mant, exp]
Canon(digits, exp) ==
    LET lead == StripLeadingZeros(digits)
        m    == StripTrailingZeros(lead)
    IN  IF m = <<>> THEN [mant |-> <<>>, exp |-> 0]
        ELSE [mant |-> m, exp |-> exp + (Len(lead) - Len(m))]

\* the decimal number of the hexadecimal digits h with the binary exponent e2
HexValue(h, e2) ==
    IF h = <<>> THEN Canon(<<>>, 0)
    ELSE IF e2 >= 0 THEN Canon(MulPow(HexToDec(h), 2, e2), 0)
    ELSE Canon(MulPow(HexToDec(h), 5, 0 - e2), e2)

\* the decimal number a parsed literal denotes; a hexadecimal mantissa is
\* taken without its trailing zeros, each of them four binary places
FloatValue(r) ==
    IF ~r.hex THEN Canon(r.digits, r.e - r.nfrac)
    ELSE HexValue(StripTrailingZeros(r.digits),
                  r.e - 4 * r.nfrac + 4 * (Len(r.digits) - Len(StripTrailingZeros(r.digits))))

\* float64: 53 bits of mantissa m, binary exponents e of m * 2^e from MinExp
\* (the denormals) to MaxExp
MinExp == -1074

MaxExp == 971

P52 == Pow(2, 52)

P53 == Pow(2, 53)

\* an exponent at most 8 below the one of n / d, from the numbers of digits
\* (2^3322 > 10^1000), or MinExp
ExpBelow(n, d) ==
    LET e == (((Len(n) - Len(d) - 1) * 3322) \div 1000) - 54
    IN  IF e < MinExp THEN MinExp ELSE e

\* how many of the next exponents n / d53 reaches: the k with n >= d53 * 2^k
ExpSteps(n, d53) == Cardinality({k \in 0..8 : CmpMag(n, BigMul(d53, Pow(2, k))) >= 0})

\* the mantissa m with its exponent e, 2^53 being the mantissa 2^52 of e + 1
Carried(m, e) == IF m = P53 THEN [m |-> P52, e |-> e + 1] ELSE [m |-> m, e |-> e]

\* the quotient q rounded by the remainder (c: twice the remainder against
\* the divisor), a tie going to the even mantissa
RoundHalfEven(q, c, e) ==
    Carried(IF c > 0 \/ (c = 0 /\ LastVal(q) % 2 = 1) THEN AddMag(q, <<"1">>, 0) ELSE q, e)

Rounded(qr, d, e) == RoundHalfEven(Norm(qr.q), CmpMag(MulAdd(qr.r, 2, 0), d), e)

\* n / (d1 * 2^k) rounded to a mantissa, for the exponent e0 + k
Divided(n, d1, e0, k) ==
    Rounded(DivMod([q |-> <<>>, r |-> n], BigMul(d1, Pow(2, k)), 16), BigMul(d1, Pow(2, k)), e0 + k)

\* n0 / d0 brought to the exponent e0, below the one of the mantissa or MinExp
ScaledBy(n0, d0, e0) ==
    IF e0 < 0 THEN Divided(MulPow(n0, 2, 0 - e0), d0, e0, ExpSteps(MulPow(n0, 2, 0 - e0), BigMul(d0, P53)))
    ELSE Divided(n0, MulPow(d0, 2, e0), e0, ExpSteps(n0, BigMul(MulPow(d0, 2, e0), P53)))

\* the float64 m * 2^e nearest to mant * 10^exp, a tie going to the even m
\* (e > MaxExp: beyond the largest float64; m = <<>>: zero). The exponent e
\* is the one with mant * 10^exp / 2^e below 2^53, not under MinExp.
Float64(mant, exp) ==
    IF exp >= 0 THEN ScaledBy(mant \o Zeros(exp), <<"1">>, ExpBelow(mant \o Zeros(exp), <<"1">>))
    ELSE ScaledBy(mant, <<"1">> \o Zeros(0 - exp), ExpBelow(mant, <<"1">> \o Zeros(0 - exp)))

\* the decimals of n leading digits of f: the one below f and the one above
Down(f, n) == Take(f, n) \o Zeros(Len(f) - n)

Up(f, n) == AddMag(Down(f, n), <<"1">> \o Zeros(Len(f) - n), 0)

\* one of them lies between lo and hi (the bounds included when incl)
Fits(f, lo, hi, incl, n) ==
    \/ n = Len(f)
    \/ CmpMag(Down(f, n), lo) >= (IF incl THEN 0 ELSE 1)
    \/ CmpMag(hi, Up(f, n)) >= (IF incl THEN 0 ELSE 1)

\* the one of the two that lies between lo and hi, the nearer to f when both do
Nearer(f, okdown, okup, half, n) ==
    IF n = Len(f) THEN f
    ELSE IF okdown /\ okup
    THEN (IF half > 0 \/ (half = 0 /\ DigitVal(f[n]) % 2 = 1) THEN Up(f, n) ELSE Down(f, n))
    ELSE IF okdown THEN Down(f, n)
    ELSE Up(f, n)

ShortestOf(f, lo, hi, incl, n) ==
    Nearer(f, CmpMag(Down(f, n), lo) >= (IF incl THEN 0 ELSE 1),
           CmpMag(hi, Up(f, n)) >= (IF incl THEN 0 ELSE 1),
           CmpMag(Norm(MulAdd(Drop(f, n), 2, 0)), <<"1">> \o Zeros(Len(f) - n)), n)

\* the first decimal of 1, 2, ... leading digits of f that lies between lo
\* and hi
ShortestDigits(f, lo, hi, incl) ==
    ShortestOf(f, lo, hi, incl,
               CHOOSE i \in 1..Len(f) : Fits(f, lo, hi, incl, i) /\ \A j \in 1..(i - 1) : ~Fits(f, lo, hi, incl, j))

\* f = m * 2^e in hundredths of p's unit, between the midpoints to the
\* neighbouring float64s: half a step of the mantissa is 50 p, and 25 p
\* below the least mantissa of an exponent
Between(m, e, f, p) ==
    ShortestDigits(f, SubMag(f, IF m = P52 /\ e > MinExp THEN MulAdd(p, 25, 0) ELSE MulAdd(p, 50, 0)),
                   AddMag(f, MulAdd(p, 50, 0), 0), LastVal(m) % 2 = 0)

\* the shortest decimal [mant, exp] that rounds to the float64 m * 2^e: all
\* numbers in hundredths of 10^e (e < 0, m * 2^e = m * 5^-e * 10^e) or of 1
Shortest(m, e) ==
    IF e >= 0 THEN Canon(Between(m, e, BigMul(m, Pow(2, e)) \o <<"0", "0">>, Pow(2, e)), -2)
    ELSE Canon(Between(m, e, BigMul(m, Pow(5, 0 - e)) \o <<"0", "0">>, Pow(5, 0 - e)), e - 2)

\* the finite float64 of sign neg and shortest decimal d
FiniteOf(neg, d) == Ok(FloatV("finite", neg, d.mant, d.exp))

\* the float64 b of sign neg as the value of the model
Finite(neg, b) ==
    IF b.e > MaxExp THEN Fail
    ELSE IF b.m = <<>> THEN FiniteOf(neg, [mant |-> <<>>, exp |-> 0])
    ELSE FiniteOf(neg, Shortest(b.m, b.e))

\* the float64 nearest to the decimal v of sign neg
Nearest(neg, v) ==
    IF v.exp + Len(v.mant) < -330 THEN Ok(FloatV("finite", neg, <<>>, 0))
    ELSE IF v.exp + Len(v.mant) > 310 THEN Fail
    ELSE IF Len(v.mant) <= 15 /\ v.exp + Len(v.mant) >= -306 /\ v.exp + Len(v.mant) <= 308
    THEN Ok(FloatV("finite", neg, v.mant, v.exp))
    ELSE Finite(neg, Float64(v.mant, v.exp))

\* the float64 nearest to the literal s that readFloat read as r: zero for a
\* mantissa of zeros, and for a hexadecimal literal an error at or beyond
\* 2^1025 and zero below 2^-1076
Literal(s, r) ==
    IF ~r.ok \/ r.i # Len(s) + 1 THEN Fail
    ELSE IF \A i \in 1..Len(r.digits) : r.digits[i] = "0" THEN Ok(FloatV("finite", r.neg, <<>>, 0))
    ELSE IF r.hex /\ r.e - 4 * r.nfrac > MaxExp + 53 THEN Fail
    ELSE IF r.hex /\ r.e - 4 * r.nfrac + 4 * Len(r.digits) < MinExp - 1
    THEN Ok(FloatV("finite", r.neg, <<>>, 0))
    ELSE Nearest(r.neg, FloatValue(r))

\* strconv.ParseFloat(s, 64): the float64 nearest to the literal. dp is the
\* place of the decimal point (the value is 0.mant * 10^dp): beyond 310 the
\* result is infinite (ErrRange), below -330 zero. A literal of up to 15
\* digits between 1e-307 and 1e308 is the shortest decimal of its float64.
ParseFloat(s) ==
    LET sp == special(s)
    IN  IF sp.ok THEN (IF sp.n = Len(s) THEN Ok(sp.val) ELSE Fail)
        ELSE Literal(s, readFloat(s))

(***************************************************************************)
(* format (src/main.go): bool, then int64, then float64, then the string   *)
(***************************************************************************)
\* format with the integer attempt put before the boolean one
format_IntFirst(v) ==
    IF ParseInt(v).ok THEN ParseInt(v).val
    ELSE IF ParseBool(v).ok THEN ParseBool(v).val
    ELSE IF ParseFloat(v).ok THEN ParseFloat(v).val
    ELSE StrV(v)

format(v) ==
    IF ParseBool(v).ok THEN ParseBool(v).val
    ELSE IF ParseInt(v).ok THEN ParseInt(v).val
    ELSE IF ParseFloat(v).ok THEN ParseFloat(v).val
    ELSE StrV(v)

(***************************************************************************)
(* strings.Split(s, " ") and strings.Fields(s)                             *)
(***************************************************************************)
\* the parts of s between single spaces: n spaces give n + 1 parts
RECURSIVE Split(_)
Split(s) ==
    IF \A i \in 1..Len(s) : s[i] # " " THEN <<s>>
    ELSE LET k == CHOOSE i \in 1..Len(s) : s[i] = " " /\ \A j \in 1..(i - 1) : s[j] # " "
         IN  <<Take(s, k - 1)>> \o Split(Drop(s, k))

\* the maximal runs of non-space characters of s
RECURSIVE Fields(_)
Fields(s) ==
    IF \A i \in 1..Len(s) : IsSpace(s[i]) THEN <<>>
    ELSE LET a == CHOOSE i \in 1..Len(s) : ~IsSpace(s[i]) /\ \A j \in 1..(i - 1) : IsSpace(s[j])
             t == Drop(s, a - 1)
             n == IF \A i \in 1..Len(t) : ~IsSpace(t[i]) THEN Len(t)
                  ELSE (CHOOSE i \in 1..Len(t) : IsSpace(t[i]) /\ \A j \in 1..(i - 1) : ~IsSpace(t[j])) - 1
         IN  <<Take(t, n)>> \o Fields(Drop(t, n))

\* Scanf taking the whole line, empty or not, as the token
Scanf_WholeLine(line) == [ok |-> TRUE, temp |-> line, left |-> <<>>]

(***************************************************************************)
(* fmt.Scanf("%s", &temp) on one line of an unbuffered stream. The line is *)
(* given without its newline. Leading blanks are skipped, a newline before *)
(* any token is "unexpected newline"; the token ends at the next blank or  *)
(* the newline, and that one character is consumed with it.  left is what  *)
(* stays unread in the stream: <<>> when the newline was consumed, else    *)
(* <<rest of the line>>.                                                   *)
(***************************************************************************)
Scanf(line) ==
    LET blank(c) == IsSpace(c) /\ c # "\n"
        lead == IF \A i \in 1..Len(line) : blank(line[i]) THEN Len(line)
                ELSE (CHOOSE i \in 1..Len(line) : ~blank(line[i]) /\ \A j \in 1..(i - 1) : blank(line[j])) - 1
        t    == Drop(line, lead)
        n    == IF \A i \in 1..Len(t) : ~blank(t[i]) THEN Len(t)
                ELSE (CHOOSE i \in 1..Len(t) : blank(t[i]) /\ \A j \in 1..(i - 1) : ~blank(t[j])) - 1
    IN  IF t = <<>> THEN [ok |-> FALSE, left |-> <<>>]
        ELSE [ok |-> TRUE, temp |-> Take(t, n),
              left |-> IF n = Len(t) THEN <<>> ELSE <<Drop(t, n + 1)>>]

(***************************************************************************)
(* Bounds and input alphabets                                              *)
(***************************************************************************)
\* lines the input stream delivers before it ends
MaxLines == 7

\* lines one read of the stream may hand to a buffered line scanner
MaxChunk == 2

\* length of the generated tokens given to format
MaxTokLen == 3

\* lines of the inputs on which termination is checked
MaxLiveLines == 5

yes == <<"y">>

no == <<"n">>

\* what the operator types at a variable prompt (processVariables)
VarLines ==
    { yes, no, <<"x", " ", "1">>, <<"x", " ", "7">>, <<"k", " ", "i", "n", "f">>,
      <<"a", " ">>, <<"a", "\t", "b">> }

\* what the operator types at a name, path, template or "Add next file" prompt
TokLines ==
    { yes, no, <<"m">>, <<"a">>, <<>>, <<" ">>, <<"a", " ", "b", " ", "c">> }

\* what the operator types at the command prompt (readCommands)
CmdLines ==
    { yes, no, <<"l", "s", " ", "-", "a", " ", "-", "l">>, <<"\f", "l", "s", " ">>, <<>>, <<" ", "\t">> }

\* sequences over S of length lo..hi
SeqsOf(S, lo, hi) == UNION {[1..n -> S] : n \in lo..hi}

(***************************************************************************)
(* Go maps and the program's records                                       *)
(***************************************************************************)
EmptyKV == [k \in {} |-> BoolV(FALSE)]

\* a nil map[string]any
NilMap == [isnil |-> TRUE, kv |-> EmptyKV]

\* Put keeping the value a name already has
Put_KeepFirst(m, k, v) ==
    [isnil |-> FALSE, kv |-> [x \in (DOMAIN m.kv) \cup {k} |-> IF x \in DOMAIN m.kv THEN m.kv[x] ELSE v]]

\* m[k] = v, on the map made when m was nil
Put(m, k, v) ==
    [isnil |-> FALSE, kv |-> [x \in (DOMAIN m.kv) \cup {k} |-> IF x = k THEN v ELSE m.kv[x]]]

\* the zero File and the zero Config
ZeroFile == [Name |-> <<>>, Path |-> <<>>, Template |-> <<>>, Local |-> NilMap]

ZeroConfig == [Global |-> NilMap, Files |-> <<>>, Cmds |-> <<>>]

(***************************************************************************)
(* State                                                                   *)
(***************************************************************************)
VARIABLES
    pc,          \* where main is: "flags", the prompt being answered, "output", "exited", or "format"
    path,        \* the -o/--output flag was given
    output,      \* main's Config
    err,         \* main's err: "nil" or the error's text (also the error flag.Parse ended the run with)
    result,      \* readFiles' result
    f,           \* readFiles' File under construction
    variables,   \* processVariables' result
    commands,    \* readCommands' result
    temp,        \* scan's temp: the token fmt.Scanf last stored
    text,        \* the line the current bufio.Scanner last returned (s.Text())
    buf,         \* lines the current bufio.Scanner has read from the stream and not yet returned
    rest,        \* the unread remainder of a line fmt.Scanf left in the stream: <<>> or <<line>>
    eof,         \* the stream has ended
    inputLines,  \* lines the input has at most
    nlines,      \* lines delivered by the stream so far
    lost,        \* lines a bufio.Scanner had read ahead when its loop stopped and another reader followed
    exit,        \* the process's exit status, -1 while it runs
    created,     \* the output file was created (truncated)
    doc,         \* the Config the encoder wrote: <<>> or <<Config>>
    tok,         \* format's argument, when format is exercised on its own
    val          \* format's result: <<>> or <<value>>

vars == <<pc, path, output, err, result, f, variables, commands, temp, text, buf, rest, eof,
          inputLines, nlines, lost, exit, created, doc, tok, val>>

\* ScanOutcomes with Scan returning a buffered line again and again
ScanOutcomes_NoAdvance(Lines) ==
    IF buf # <<>>
    THEN {[kind |-> "line", text |-> Head(buf), buf |-> buf, eof |-> eof, nlines |-> nlines]}
    ELSE IF eof
    THEN {[kind |-> "eof", text |-> <<>>, buf |-> <<>>, eof |-> TRUE, nlines |-> nlines]}
    ELSE {[kind |-> "line", text |-> Head(rest \o new), buf |-> Tail(rest \o new),
           eof |-> FALSE, nlines |-> nlines + Len(new)] :
             new \in {c \in SeqsOf(Lines, 1 - Len(rest), MaxChunk - Len(rest)) :
                        nlines + Len(c) <= inputLines}}
         \cup (IF rest = <<>>
               THEN {[kind |-> "eof", text |-> <<>>, buf |-> <<>>, eof |-> TRUE, nlines |-> nlines],
                     [kind |-> "err", text |-> <<>>, buf |-> <<>>, eof |-> FALSE, nlines |-> nlines]}
               ELSE {})

(***************************************************************************)
(* The input stream: lines typed by the operator, each ended by a newline  *)
(* and free of carriage returns. Every processVariables and readCommands   *)
(* call makes its own bufio.Scanner, whose buffer (buf) is dropped with it *)
(* when the call returns; scan reads os.Stdin without a buffer.            *)
(***************************************************************************)
\* One s.Scan() of the current bufio.Scanner, typed by an operator who answers
\* with lines of Lines. A buffered line is returned first. Otherwise the
\* scanner reads the stream: it gets what Scanf left of a line and up to
\* MaxChunk lines in all, or the end of the stream, or a read error.
ScanOutcomes(Lines) ==
    IF buf # <<>>
    THEN {[kind |-> "line", text |-> Head(buf), buf |-> Tail(buf), eof |-> eof, nlines |-> nlines]}
    ELSE IF eof
    THEN {[kind |-> "eof", text |-> <<>>, buf |-> <<>>, eof |-> TRUE, nlines |-> nlines]}
    ELSE {[kind |-> "line", text |-> Head(rest \o new), buf |-> Tail(rest \o new),
           eof |-> FALSE, nlines |-> nlines + Len(new)] :
             new \in {c \in SeqsOf(Lines, 1 - Len(rest), MaxChunk - Len(rest)) :
                        nlines + Len(c) <= inputLines}}
         \cup (IF rest = <<>>
               THEN {[kind |-> "eof", text |-> <<>>, buf |-> <<>>, eof |-> TRUE, nlines |-> nlines],
                     [kind |-> "err", text |-> <<>>, buf |-> <<>>, eof |-> FALSE, nlines |-> nlines]}
               ELSE {})

\* One scan(prompt): fmt.Scanf("%s") reads the stream byte by byte, first what
\* an earlier Scanf left of a line, else a fresh line of Lines, or it meets the
\* end of the stream or a read error.
ScanfOutcomes(Lines) ==
    LET on(line, n) ==
            LET r == Scanf(line)
            IN  IF r.ok THEN [err |-> "nil", temp |-> r.temp, rest |-> r.left, eof |-> FALSE, nlines |-> n]
                ELSE [err |-> "unexpected newline", temp |-> <<>>, rest |-> <<>>, eof |-> FALSE, nlines |-> n]
    IN  IF rest # <<>> THEN {on(rest[1], nlines)}
        ELSE IF eof THEN {[err |-> "EOF", temp |-> <<>>, rest |-> <<>>, eof |-> TRUE, nlines |-> nlines]}
        ELSE {on(l, nlines + 1) : l \in {x \in Lines : nlines < inputLines}}
             \cup {[err |-> "EOF", temp |-> <<>>, rest |-> <<>>, eof |-> TRUE, nlines |-> nlines],
                   [err |-> "read error", temp |-> <<>>, rest |-> <<>>, eof |-> FALSE, nlines |-> nlines]}

(***************************************************************************)
(* main                                                                    *)
(***************************************************************************)
\* the state after main's declarations, before the command line is parsed,
\* on an input of at most n lines
Start(n) ==
    /\ pc = "flags"
    /\ path = FALSE
    /\ output = ZeroConfig
    /\ err = "nil"
    /\ result = <<>>
    /\ f = ZeroFile
    /\ variables = NilMap
    /\ commands = <<>>
    /\ temp = <<>>
    /\ text = <<>>
    /\ buf = <<>>
    /\ rest = <<>>
    /\ eof = FALSE
    /\ inputLines = n
    /\ nlines = 0
    /\ lost = 0
    /\ exit = -1
    /\ created = FALSE
    /\ doc = <<>>
    /\ tok = <<>>
    /\ val = <<>>

Init == Start(MaxLines)

\* the exit status flag.Parse ends the run with (the flag set is
\* flag.CommandLine, ExitOnError): 0 after -h or -help, 2 for a command line
\* it rejects
FlagExit(outcome) == IF outcome = "help" THEN 0 ELSE 2

\* flag.Parse(): the arguments are taken in order, so -o/--output may have
\* set path (given) whatever follows; the command line is accepted, or the
\* usage is printed and the process exits
flagParse ==
    /\ pc = "flags"
    /\ \E outcome \in {"parsed", "help", "rejected"}, given \in BOOLEAN :
         /\ path' = given
         /\ IF outcome = "parsed"
            THEN /\ pc' = "globals"
                 /\ UNCHANGED <<err, exit>>
            ELSE /\ err' = (IF outcome = "help" THEN "flag: help requested" ELSE "flag: rejected")
                 /\ exit' = FlagExit(outcome)
                 /\ pc' = "exited"
    /\ UNCHANGED <<output, result, f, variables, commands, temp, text, buf, rest,
                   eof, inputLines, nlines, lost, created, doc, tok, val>>

InitLive == Start(MaxLiveLines)

\* Fatal with the error only recorded: main's loop goes on to the next stage
Fatal_Continue(e) ==
    /\ err' = e
    /\ pc' = (CASE pc = "globals" -> "name" [] pc = "commands" -> "output" [] OTHER -> "commands")
    /\ UNCHANGED <<exit, created, doc>>

\* Fatal with a return in place of os.Exit(1): the deferred output runs
Fatal_Return(e) ==
    /\ err' = e
    /\ pc' = "output"
    /\ UNCHANGED <<exit, created, doc>>

\* main's `if err != nil { log.Printf(...); os.Exit(1) }`: the deferred output does not run
Fatal(e) ==
    /\ err' = e
    /\ exit' = 1
    /\ pc' = "exited"
    /\ UNCHANGED <<created, doc>>

\* ScanErr with the end of the stream reported as an error
ScanErr_EofIsError(kind) == IF kind \in {"err", "eof"} THEN "read" ELSE "nil"

\* s.Err() after the loop: nil at the end of the stream, the error of a failed read
ScanErr(kind) == IF kind = "err" THEN "read" ELSE "nil"

\* processVariables returns (m, e) to readGlobals or to readFiles
ReturnVariables(m, e) ==
    IF pc = "globals"
    THEN IF e # "nil"
         THEN /\ output' = [output EXCEPT !.Global = NilMap]
              /\ Fatal("global variables")
              /\ UNCHANGED <<result, f>>
         ELSE /\ output' = [output EXCEPT !.Global = m]
              /\ pc' = "name"
              /\ result' = <<>>
              /\ f' = ZeroFile
              /\ UNCHANGED <<err, exit, created, doc>>
    ELSE IF e # "nil"
         THEN /\ output' = [output EXCEPT !.Files = <<>>]
              /\ Fatal("file parameters")
              /\ UNCHANGED <<result, f>>
         ELSE /\ f' = [f EXCEPT !.Local = m]
              /\ result' = Append(result, f')
              /\ pc' = "next"
              /\ UNCHANGED <<output, err, exit, created, doc>>

\* Skips with no line skipped
Skips_Never(line) == FALSE

\* `case yes: continue` of the two line loops
Skips(line) == line = yes

\* Stops with no line ending the loop
Stops_Never(line) == FALSE

\* `case no: break Cycle` of the two line loops
Stops(line) == line = no

\* one iteration of processVariables' loop, for the globals or a file's locals
processVariables ==
    /\ pc \in {"globals", "local"}
    /\ \E o \in ScanOutcomes(VarLines) :
         /\ text' = o.text
         /\ eof' = o.eof
         /\ nlines' = o.nlines
         /\ rest' = <<>>
         /\ IF o.kind # "line" /\ ScanErr(o.kind) # "nil" THEN
                /\ ReturnVariables(NilMap, "process variables")
                /\ buf' = <<>>
                /\ UNCHANGED <<variables, lost>>
            ELSE IF o.kind # "line" \/ Stops(o.text) THEN
                /\ ReturnVariables(variables, "nil")
                /\ buf' = <<>>
                /\ lost' = lost + Len(o.buf)
                /\ UNCHANGED variables
            ELSE IF Skips(o.text) THEN
                /\ buf' = o.buf
                /\ UNCHANGED <<pc, output, err, result, f, variables, lost, exit, created, doc>>
            ELSE LET parts == Split(o.text) IN
                IF Len(parts) # 2 THEN
                    /\ ReturnVariables(NilMap, "incorrect number of tokens")
                    /\ buf' = <<>>
                    /\ UNCHANGED <<variables, lost>>
                ELSE
                    /\ variables' = Put(variables, parts[1], format(parts[2]))
                    /\ buf' = o.buf
                    /\ UNCHANGED <<pc, output, err, result, f, lost, exit, created, doc>>
    /\ UNCHANGED <<path, commands, temp, inputLines, tok, val>>

\* Declines with the negative token ending the loop at every prompt of readFiles
Declines_AtAnyPrompt(prompt, answer) == answer = no

\* readFiles' `case no: break Cycle`: the answer to "Add next file" that ends the loop
Declines(prompt, answer) == prompt = "next" /\ answer = no

\* one scan(prompt) of readFiles: a field of the File, or the "Add next file" answer
readFiles ==
    /\ pc \in {"name", "path", "template", "next"}
    /\ \E o \in ScanfOutcomes(TokLines) :
         /\ rest' = o.rest
         /\ eof' = o.eof
         /\ nlines' = o.nlines
         /\ temp' = o.temp
         /\ IF o.err # "nil" THEN
                /\ output' = [output EXCEPT !.Files = <<>>]
                /\ Fatal("file parameters")
                /\ UNCHANGED <<result, f, variables, commands>>
            ELSE IF Declines(pc, o.temp) THEN
                /\ output' = [output EXCEPT !.Files = result]
                /\ pc' = "commands"
                /\ commands' = <<>>
                /\ UNCHANGED <<err, result, f, variables, exit, created, doc>>
            ELSE IF pc = "name" THEN
                /\ f' = [f EXCEPT !.Name = o.temp]
                /\ pc' = "path"
                /\ UNCHANGED <<output, err, result, variables, commands, exit, created, doc>>
            ELSE IF pc = "path" THEN
                /\ f' = [f EXCEPT !.Path = o.temp]
                /\ pc' = "template"
                /\ UNCHANGED <<output, err, result, variables, commands, exit, created, doc>>
            ELSE IF pc = "template" THEN
                /\ f' = [f EXCEPT !.Template = o.temp]
                /\ pc' = "local"
                /\ variables' = NilMap
                /\ UNCHANGED <<output, err, result, commands, exit, created, doc>>
            ELSE \* "Add next file": yes continues the loop; any other answer leaves
                 \* the switch at its empty default and reaches the loop's end, too
                /\ f' = ZeroFile
                /\ pc' = "name"
                /\ UNCHANGED <<output, err, result, variables, commands, exit, created, doc>>
    /\ buf' = <<>>
    /\ UNCHANGED <<path, text, inputLines, lost, tok, val>>

\* NewCommand with the name left among the arguments
NewCommand_ArgsWithName(parts) == [Name |-> parts[1], Args |-> parts]

\* Command{Name: parts[0], Args: parts[1:]}
NewCommand(parts) == [Name |-> parts[1], Args |-> Tail(parts)]

\* one iteration of readCommands' loop
readCommands ==
    /\ pc = "commands"
    /\ \E o \in ScanOutcomes(CmdLines) :
         /\ text' = o.text
         /\ eof' = o.eof
         /\ nlines' = o.nlines
         /\ rest' = <<>>
         /\ IF o.kind # "line" /\ ScanErr(o.kind) # "nil" THEN
                /\ output' = [output EXCEPT !.Cmds = <<>>]
                /\ Fatal("read commands")
                /\ buf' = <<>>
                /\ UNCHANGED commands
            ELSE IF o.kind # "line" \/ Stops(o.text) THEN
                /\ output' = [output EXCEPT !.Cmds = commands]
                /\ pc' = "output"
                /\ buf' = <<>>
                /\ UNCHANGED <<commands, err, exit, created, doc>>
            ELSE IF Skips(o.text) THEN
                /\ buf' = o.buf
                /\ UNCHANGED <<pc, output, err, commands, exit, created, doc>>
            ELSE LET parts == Fields(o.text) IN
                IF Len(parts) = 0 THEN
                    /\ output' = [output EXCEPT !.Cmds = <<>>]
                    /\ Fatal("read commands")
                    /\ buf' = <<>>
                    /\ UNCHANGED commands
                ELSE
                    /\ commands' = Append(commands, NewCommand(parts))
                    /\ buf' = o.buf
                    /\ UNCHANGED <<pc, output, err, exit, created, doc>>
    /\ UNCHANGED <<path, result, f, variables, temp, inputLines, lost, tok, val>>

\* encoding/json refuses NaN and the infinities (UnsupportedValueError)
Unsupported(m) == \E k \in DOMAIN m.kv : m.kv[k].kind = "float" /\ m.kv[k].cls # "finite"

EncodeFails(c) ==
    Unsupported(c.Global) \/ \E i \in 1..Len(c.Files) : Unsupported(c.Files[i].Local)

(***************************************************************************)
(* The JSON of a Config, as encoding/json writes it for the types and tags *)
(* of Config, File and Command, kept as the tree of its values with every  *)
(* number as the characters of its literal; and json.Unmarshal of that     *)
(* JSON into a Config.                                                     *)
(***************************************************************************)
\* an int64 as a JSON number: its decimal digits
EncodeInt(v) ==
    IF v.mag \in {<<>>, <<"0">>} THEN <<"0">>
    ELSE (IF v.neg THEN <<"-">> ELSE <<>>) \o v.mag

\* a finite float64 as a JSON number: the shortest digits that give the value
\* back (the mantissa of the value), without exponent from 1e-6 up to 1e21
\* and with one outside, "e-0X" shortened to "e-X"
EncodeFloat(v) ==
    LET n    == Len(v.mant)
        p    == n + v.exp
        adj  == p - 1
        sign == IF v.neg THEN <<"-">> ELSE <<>>
        two(d) == IF Len(d) < 2 THEN Zeros(2 - Len(d)) \o d ELSE d
    IN  IF n = 0 THEN sign \o <<"0">>
        ELSE IF adj < -6 \/ adj >= 21
        THEN sign \o <<v.mant[1]>> \o (IF n > 1 THEN <<".">> \o Tail(v.mant) ELSE <<>>) \o <<"e">>
                  \o (IF adj < 0 THEN <<"-">> \o IntDigits(0 - adj) ELSE <<"+">> \o two(IntDigits(adj)))
        ELSE IF p <= 0 THEN sign \o <<"0", ".">> \o Zeros(0 - p) \o v.mant
        ELSE IF p >= n THEN sign \o v.mant \o Zeros(p - n)
        ELSE sign \o Take(v.mant, p) \o <<".">> \o Drop(v.mant, p)

\* a value of a map[string]any
EncodeAny(v) ==
    CASE v.kind = "bool" -> [t |-> "bool", b |-> v.b]
      [] v.kind = "int" -> [t |-> "number", text |-> EncodeInt(v)]
      [] v.kind = "float" -> [t |-> "number", text |-> EncodeFloat(v)]
      [] OTHER -> [t |-> "string", s |-> v.s]

\* a nil map is null, any other map an object
EncodeMap(m) ==
    IF m.isnil THEN [t |-> "null"]
    ELSE [t |-> "object", kv |-> [k \in DOMAIN m.kv |-> EncodeAny(m.kv[k])]]

EncodeFile(x) ==
    [name |-> x.Name, path |-> x.Path, template |-> x.Template, local |-> EncodeMap(x.Local)]

EncodeCommand(x) == [name |-> x.Name, args |-> x.Args]

\* "files" and "commands" are left out when empty (omitempty)
Encode(c) ==
    [global |-> EncodeMap(c.Global),
     files |-> IF c.Files = <<>> THEN [t |-> "absent"]
               ELSE [t |-> "array", a |-> [i \in 1..Len(c.Files) |-> EncodeFile(c.Files[i])]],
     commands |-> IF c.Cmds = <<>> THEN [t |-> "absent"]
                  ELSE [t |-> "array", a |-> [i \in 1..Len(c.Cmds) |-> EncodeCommand(c.Cmds[i])]]]

\* into an `any`: true and false as bool, a number as float64, a string as string
DecodeAny(j) ==
    CASE j.t = "bool" -> BoolV(j.b)
      [] j.t = "number" -> ParseFloat(j.text).val
      [] OTHER -> StrV(j.s)

DecodeMap(j) ==
    IF j.t = "null" THEN NilMap
    ELSE [isnil |-> FALSE, kv |-> [k \in DOMAIN j.kv |-> DecodeAny(j.kv[k])]]

DecodeFile(j) ==
    [Name |-> j.name, Path |-> j.path, Template |-> j.template, Local |-> DecodeMap(j.local)]

DecodeCommand(j) == [Name |-> j.name, Args |-> j.args]

Decode(j) ==
    [Global |-> DecodeMap(j.global),
     Files |-> IF j.files.t = "absent" THEN <<>>
               ELSE [i \in 1..Len(j.files.a) |-> DecodeFile(j.files.a[i])],
     Cmds |-> IF j.commands.t = "absent" THEN <<>>
              ELSE [i \in 1..Len(j.commands.a) |-> DecodeCommand(j.commands.a[i])]]

\* OutputExit with a failed Encode fatal as well
OutputExit_EncodeFatal(createFailed, encodeFailed) == IF createFailed \/ encodeFailed THEN 1 ELSE 0

\* the exit status after the deferred function: log.Fatalln exits with 1 when
\* os.Create fails; a failed Encode is logged with log.Printf and main returns
OutputExit(createFailed, encodeFailed) == IF createFailed THEN 1 ELSE 0

\* main's deferred function, run when the three stages returned without error:
\* os.Create(path) when -o was given (log.Fatalln when it fails), then Encode
\* (log.Printf when it fails)
Output ==
    /\ pc = "output"
    /\ \E createFails \in BOOLEAN, writeFails \in BOOLEAN :
         LET createFailed == path /\ createFails
             encodeFailed == ~createFailed /\ (EncodeFails(output) \/ writeFails)
         IN  /\ created' = (path /\ ~createFailed)
             /\ doc' = IF createFailed \/ encodeFailed THEN <<>> ELSE <<output>>
             /\ err' = IF createFailed THEN "failed to create output file"
                       ELSE IF encodeFailed THEN "failed to produce output"
                       ELSE "nil"
             /\ exit' = OutputExit(createFailed, encodeFailed)
    /\ pc' = "exited"
    /\ UNCHANGED <<path, output, result, f, variables, commands, temp, text, buf, rest,
                   eof, inputLines, nlines, lost, tok, val>>

Next == flagParse \/ processVariables \/ readFiles \/ readCommands \/ Output

Spec == Init /\ [][Next]_vars

\* main runs on one goroutine and every read of a finite input returns (with
\* lines, the end of the input or an error), so the program always takes its
\* next step
SpecLive == InitLive /\ [][Next]_vars /\ WF_vars(Next)

(***************************************************************************)
(* format on its own: every token of Tokens is given to format once        *)
(***************************************************************************)
TokChars == {"0", "1", "9", "-", "+", ".", "e", "_", "t", "f"}

\* tokens longer than MaxTokLen that reach the corners of the parsers
LongTokens ==
    { <<"t", "r", "u", "e">>, <<"T", "R", "U", "E">>, <<"T", "r", "u", "e">>,
      <<"f", "a", "l", "s", "e">>, <<"F", "A", "L", "S", "E">>, <<"F", "a", "l", "s", "e">>,
      <<"t", "R", "U", "E">>, <<"T">>, <<"F">>, <<"y">>, <<"a", "b", "c">>, <<"a", "\t", "b">>,
      <<"N", "a", "N">>, <<"n", "a", "n">>, <<"+", "n", "a", "n">>, <<"n", "a", "n", "x">>,
      <<"i", "n", "f">>, <<"I", "n", "f">>, <<"+", "I", "n", "f">>, <<"-", "i", "n", "f">>,
      <<"I", "n", "f", "i", "n", "i", "t", "y">>, <<"i", "n", "f", "i", "n", "i", "t">>,
      <<"0", "x", "1", "p", "-", "2">>, <<"0", "X", "1", "P", "+", "1">>,
      <<"0", "x", ".", "8", "p", "1">>, <<"-", "0", "x", "A", "p", "0">>,
      <<"0", "x", "_", "1", "p", "0">>, <<"0", "x", "1">>, <<"0", "x">>, <<"0", "x", "1", "p">>,
      <<"1", "_", "0", "0", "0">>, <<"1", "e", "3", "0", "8">>, <<"2", "e", "3", "0", "8">>,
      <<"1", "e", "-", "4", "0", "0">>, <<"0", ".", "2", "5">>, <<"1", "2", "3", "4", "5">>,
      <<"-", "1", "2", ".", "5", "0">>,
      <<"9", "2", "2", "3", "3", "7", "2", "0", "3", "6", "8", "5", "4", "7", "7", "5", "8", "0", "7">>,
      <<"9", "2", "2", "3", "3", "7", "2", "0", "3", "6", "8", "5", "4", "7", "7", "5", "8", "0", "8">>,
      <<"-", "9", "2", "2", "3", "3", "7", "2", "0", "3", "6", "8", "5", "4", "7", "7", "5", "8", "0", "8">>,
      <<"-", "9", "2", "2", "3", "3", "7", "2", "0", "3", "6", "8", "5", "4", "7", "7", "5", "8", "0", "9">>,
      <<"0", "0", "0", "0", "0", "0", "0", "0", "0", "0", "0", "0", "0", "0", "0", "0", "0", "0", "0", "0", "7">>,
      <<"0", ".", "3", "0", "0", "0", "0", "0", "0", "0", "0", "0", "0", "0", "0", "0", "0", "0", "1">>,
      <<"9", "0", "0", "7", "1", "9", "9", "2", "5", "4", "7", "4", "0", "9", "9", "3", ".", "0">>,
      <<"4", ".", "9", "e", "-", "3", "2", "4">>,
      <<"0", "x", "1", "p", "-", "1", "0", "7", "5">>,
      <<"1", ".", "7", "9", "7", "6", "9", "3", "1", "3", "4", "8", "6", "2", "3", "1", "5", "8", "0", "7", "9", "3", "e", "3", "0", "8">> }

Tokens == SeqsOf(TokChars, 0, MaxTokLen) \cup LongTokens

InitFormat ==
    /\ pc = "format"
    /\ tok \in Tokens
    /\ val = <<>>
    /\ path = FALSE
    /\ output = ZeroConfig
    /\ err = "nil"
    /\ result = <<>>
    /\ f = ZeroFile
    /\ variables = NilMap
    /\ commands = <<>>
    /\ temp = <<>>
    /\ text = <<>>
    /\ buf = <<>>
    /\ rest = <<>>
    /\ eof = FALSE
    /\ inputLines = 0
    /\ nlines = 0
    /\ lost = 0
    /\ exit = -1
    /\ created = FALSE
    /\ doc = <<>>

Format ==
    /\ pc = "format"
    /\ val' = <<format(tok)>>
    /\ pc' = "formatted"
    /\ UNCHANGED <<path, output, err, result, f, variables, commands, temp, text, buf, rest,
                   eof, inputLines, nlines, lost, exit, created, doc, tok>>

SpecFormat == InitFormat /\ [][Format]_vars

(***************************************************************************)
(* Properties                                                              *)
(***************************************************************************)
\* the errors with which a collection stage returns to main
CollectionErrors == {"global variables", "file parameters", "read commands"}

\* this step's reader got a line from its buffer or from the stream
GotLine == buf # <<>> \/ rest # <<>> \/ nlines' > nlines

\* t matches ^-?\d+$
IsIntegerToken(t) ==
    LET d == IF t # <<>> /\ t[1] = "-" THEN Tail(t) ELSE t
    IN  d # <<>> /\ \A i \in 1..Len(d) : IsDigit(d[i])

\* the number an integer token denotes, and whether it is an int64
IntegerOf(t) ==
    LET neg == t[1] = "-"
        mag == StripLeadingZeros(IF neg THEN Tail(t) ELSE t)
    IN  IntV(neg /\ mag # <<"0">>, mag)

InInt64Range(t) ==
    LET v == IntegerOf(t)
    IN  CmpMag(v.mag, Cutoff64) < 0 \/ (v.neg /\ v.mag = Cutoff64)

\* C1: every token matching ^-?\d+$ within the int64 range, 0 and 1 included,
\* is inferred as the integer with the token's numeric value
C1_IntegerTokensInferInteger ==
    (pc = "formatted" /\ IsIntegerToken(tok) /\ InInt64Range(tok)) => val = <<IntegerOf(tok)>>

\* C2: when the lines read at the global-variable prompt are "x 1" and then
\* "n", readGlobals returns without error the mapping {x: 1}, 1 an integer
C2_GlobalsExample ==
    [][(/\ pc = "globals"
        /\ text = <<"x", " ", "1">>
        /\ nlines - Len(buf) = 1
        /\ GotLine
        /\ text' = no)
       => (/\ pc' = "name"
           /\ err' = "nil"
           /\ output'.Global = Put(NilMap, <<"x">>, IntV(FALSE, <<"1">>)))]_vars

\* C3: format is a total chain in the order boolean literal, int64, float64,
\* string: a boolean literal yields the boolean it means, and each later
\* interpretation is the result only when every earlier one fails
C3_PriorityChain ==
    pc = "formatted" =>
        LET v == val[1]
        IN  /\ tok \in TrueLiterals => v = BoolV(TRUE)
            /\ tok \in FalseLiterals => v = BoolV(FALSE)
            /\ v.kind \in {"bool", "int", "float", "string"}
            /\ v.kind = "bool" => tok \in TrueLiterals \cup FalseLiterals
            /\ v.kind = "int" => /\ tok \notin TrueLiterals \cup FalseLiterals
                                 /\ ParseInt(tok) = Ok(v)
            /\ v.kind = "float" => /\ tok \notin TrueLiterals \cup FalseLiterals
                                   /\ ~ParseInt(tok).ok
                                   /\ ParseFloat(tok) = Ok(v)
            /\ v.kind = "string" => /\ tok \notin TrueLiterals \cup FalseLiterals
                                    /\ ~ParseInt(tok).ok
                                    /\ ~ParseFloat(tok).ok
                                    /\ v = StrV(tok)

C3_Witness == pc = "formatted" /\ tok = <<"1">> /\ val = <<BoolV(TRUE)>>

\* a decimal floating-point number written with digits and a '.' decimal
\* point: sign, digits with at most one '.', and an optional decimal exponent
IsDecimalFloat(t) ==
    LET b       == IF t # <<>> /\ t[1] \in {"+", "-"} THEN Tail(t) ELSE t
        es      == {i \in 1..Len(b) : lower(b[i]) = "e"}
        k       == IF es = {} THEN Len(b) + 1 ELSE CHOOSE i \in es : TRUE
        m       == Take(b, k - 1)
        x       == Drop(b, k)
        xd      == IF x # <<>> /\ x[1] \in {"+", "-"} THEN Tail(x) ELSE x
    IN  /\ Cardinality(es) <= 1
        /\ \A i \in 1..Len(m) : IsDigit(m[i]) \/ m[i] = "."
        /\ \E i \in 1..Len(m) : IsDigit(m[i])
        /\ Cardinality({i \in 1..Len(m) : m[i] = "."}) <= 1
        /\ es # {} => (xd # <<>> /\ \A i \in 1..Len(xd) : IsDigit(xd[i]))

\* C4: a token that is no boolean literal, no int64 and no decimal float is
\* returned as the same string, and only a decimal float that is no integer
\* yields a float
C4_FallbackToString ==
    pc = "formatted" =>
        /\ (/\ tok \notin TrueLiterals \cup FalseLiterals
            /\ ~ParseInt(tok).ok
            /\ ~IsDecimalFloat(tok)) => val = <<StrV(tok)>>
        /\ val[1].kind = "float" => (IsDecimalFloat(tok) /\ ~ParseInt(tok).ok)

\* C5: a variable line other than the affirmative and negative tokens is
\* accepted exactly when it has exactly two whitespace-separated tokens, which
\* are then stored as name and value; no empty name or value is stored
C5_TwoTokenLines ==
    [][(pc \in {"globals", "local"} /\ GotLine /\ text' \notin {yes, no})
       => LET tokens == Fields(text')
          IN  /\ (err' = "nil") <=> (Len(tokens) = 2)
              /\ err' = "nil" => variables' = Put(variables, tokens[1], format(tokens[2]))
              /\ \A k \in DOMAIN variables'.kv :
                     k # <<>> /\ variables'.kv[k] # StrV(<<>>)]_vars

\* C6: the files stage can be declined at once: a negative token given as the
\* first answer of the stage is not recorded as a file's name
C6_DeclineImmediately == ~(pc = "path" /\ result = <<>> /\ temp = no)

\* the files stage has returned to main without an error
FilesReturned ==
    \/ pc \in {"commands", "output"}
    \/ pc = "exited" /\ err \in {"nil", "read commands", "failed to create output file",
                                  "failed to produce output"}

\* C6 amended: readFiles never returns an empty sequence without error: the
\* stage cannot be declined before the first file is complete
C6_AtLeastOneFile == FilesReturned => Len(output.Files) >= 1

C6_Witness == pc = "commands" /\ Len(output.Files) = 1 /\ output.Files[1].Name = no

\* C7: an answer to "Add next file" other than the two tokens is ignored: the
\* files collected stay as they are, no new File is begun, and the collector
\* asks "Add next file" again
C7_OtherAnswerReprompts ==
    [][(pc = "next" /\ err' = "nil" /\ temp' \notin {yes, no})
       => (pc' = "next" /\ result' = result /\ f' = f)]_vars

\* C8: at whatever prompt the input ends, no error arises
C8_EndOfInputNeverFails ==
    [][(pc \in {"globals", "name", "path", "template", "local", "next", "commands"} /\ eof')
       => (err' = "nil" /\ exit' # 1)]_vars

\* C8 amended: the end of input is a normal stop of the three line loops, which
\* return what they accumulated without error; at a scan prompt of the files
\* stage it is a read failure that ends the run with status 1
C8_EndOfInput ==
    [][/\ (pc = "globals" /\ eof')
            => (err' = "nil" /\ exit' = -1 /\ pc' = "name" /\ output'.Global = variables)
       /\ (pc = "local" /\ eof')
            => (/\ err' = "nil" /\ exit' = -1 /\ pc' = "next"
                /\ result' = Append(result, [f EXCEPT !.Local = variables]))
       /\ (pc = "commands" /\ eof')
            => (err' = "nil" /\ exit' = -1 /\ pc' = "output" /\ output'.Cmds = commands)
       /\ (pc \in {"name", "path", "template", "next"} /\ eof')
            => (err' = "file parameters" /\ exit' = 1 /\ pc' = "exited")]_vars

C8_Witness ==
    /\ pc = "exited" /\ eof /\ err = "file parameters"
    /\ text = <<>> /\ ~output.Global.isnil /\ nlines >= 1

\* C9: the exit status is non-zero only when a collection stage returned an error
C9_NonZeroOnlyOnCollectionError == exit = 1 => err \in CollectionErrors

\* C9 amended: the exit status is non-zero exactly when flag.Parse rejected
\* the command line (status 2), a collection stage returned an error or the
\* output file could not be created (status 1); a failure to encode or write
\* the document is logged and leaves the status 0
C9_ExitStatus ==
    pc = "exited" =>
        /\ exit \in {0, 1, 2}
        /\ exit = 2 <=> err = "flag: rejected"
        /\ exit = 1 <=> err \in CollectionErrors \cup {"failed to create output file"}
        /\ err = "failed to produce output" => exit = 0

C9_Witness == pc = "exited" /\ exit = 1 /\ err = "failed to create output file" /\ ~created

\* C10: once a collection stage has returned an error the run is over with a
\* non-zero status: nothing more is read or asked, no document is written and
\* the output file is not created, whatever the earlier stages collected
C10_FatalAbort ==
    err \in CollectionErrors =>
        /\ pc = "exited" /\ exit = 1
        /\ doc = <<>> /\ ~created
        /\ ~ENABLED Next

C10_Witness ==
    /\ err = "read commands" /\ text = <<" ", "\t">> /\ exit = 1
    /\ ~output.Global.isnil /\ Len(output.Files) >= 1 /\ doc = <<>>

\* C11: in readCommands every line with at least one token, other than the
\* two tokens, appends one Command of its first token and its remaining
\* tokens; the affirmative token appends nothing; the sequence is returned as
\* accumulated, so "ls -a -l" then "n" yields [{ls, [-a, -l]}]
C11_CommandsInOrder ==
    [][pc = "commands" =>
         /\ (GotLine /\ text' \notin {yes, no} /\ Fields(text') # <<>>)
              => (/\ commands' = Append(commands, [Name |-> Head(Fields(text')),
                                                   Args |-> Tail(Fields(text'))])
                  /\ pc' = "commands" /\ err' = "nil")
         /\ (GotLine /\ text' = yes) => (commands' = commands /\ pc' = "commands")
         /\ pc' = "output" => (output'.Cmds = commands /\ err' = "nil")
         /\ (/\ Len(commands) = 1 /\ text = <<"l", "s", " ", "-", "a", " ", "-", "l">>
             /\ GotLine /\ text' = no)
              => output'.Cmds = <<[Name |-> <<"l", "s">>,
                                   Args |-> <<<<"-", "a">>, <<"-", "l">>>>]>>]_vars

C11_Witness ==
    /\ pc = "output" /\ text = no
    /\ output.Cmds = <<[Name |-> <<"l", "s">>, Args |-> <<<<"-", "a">>, <<"-", "l">>>>],
                       [Name |-> <<"l", "s">>, Args |-> <<>>]>>

\* the steps of readFiles and of the local-variable loop it calls
InFiles == pc \in {"name", "path", "template", "local", "next"}

\* C12: in a file-collector session every entered token becomes the field its
\* prompt asks for, the record with the local pairs is appended in entry order
\* when the local-variable loop ends, "y" starts the next record, "n" returns
\* the records without error, and every line the operator entered reaches a
\* prompt (none is dropped with a scanner's read-ahead).
C12_FileSession ==
    [][InFiles =>
         /\ (pc = "name" /\ pc' = "path") => (f' = [f EXCEPT !.Name = temp'] /\ result' = result)
         /\ (pc = "path" /\ pc' = "template") => (f' = [f EXCEPT !.Path = temp'] /\ result' = result)
         /\ (pc = "template" /\ pc' = "local") => (f' = [f EXCEPT !.Template = temp'] /\ result' = result)
         /\ (pc = "local" /\ pc' = "next") => result' = Append(result, [f EXCEPT !.Local = variables])
         /\ (pc = "next" /\ pc' = "name") => result' = result
         /\ (pc = "next" /\ pc' = "commands") => (output'.Files = result /\ err' = "nil")
         /\ lost' = lost]_vars

\* the three required fields of a File record are non-empty
Complete(file) == file.Name # <<>> /\ file.Path # <<>> /\ file.Template # <<>>

\* C13: every File record in the files sequence, in the document and in an
\* emitted document has a non-empty name, path and template; at each of the
\* three field prompts a successful scan of a non-empty token stores the field
\* and moves to the next prompt, and a failed or empty read exits with status 1
\* with no record appended; a record is appended only when the local-variable
\* loop of a file returns, after the three fields were scanned.
C13_FileInvariant ==
    /\ [](/\ \A i \in 1..Len(result) : Complete(result[i])
          /\ \A i \in 1..Len(output.Files) : Complete(output.Files[i])
          /\ \A d \in Range(doc) : \A i \in 1..Len(d.Files) : Complete(d.Files[i])
          /\ pc \in {"local", "next"} => Complete(f))
    /\ [][/\ pc \in {"name", "path", "template"} =>
               \/ /\ temp' # <<>> /\ err' = "nil" /\ result' = result
                  /\ pc' = (CASE pc = "name" -> "path" [] pc = "path" -> "template" [] OTHER -> "local")
               \/ /\ temp' = <<>> /\ pc' = "exited" /\ exit' = 1
                  /\ result' = result /\ output'.Files = <<>> /\ doc' = <<>>
          /\ (InFiles /\ result' # result) =>
               (pc = "local" /\ Complete(f') /\ result' = Append(result, f'))]_vars

\* two complete records were collected and emitted
C13_Witness ==
    /\ pc = "exited" /\ exit = 0 /\ doc # <<>>
    /\ Len(doc[1].Files) = 2
    /\ doc[1].Files[1].Name = <<"a">> /\ doc[1].Files[2].Template = <<"c">>

\* the variable loop is running, for the globals or for a file's locals
InVariables == pc \in {"globals", "local"}

\* C14: when the variable loop reads a line equal to the negative token it is
\* over in that step (no further line is scanned by this call): the pairs
\* stored so far are returned without error, as the global mapping or as the
\* local mapping of the File appended; with no pair stored, as when "n" is the
\* first line, the mapping returned is the absent (nil) one.
C14_NegativeStops ==
    [][(InVariables /\ GotLine /\ text' = no) =>
         /\ err' = "nil" /\ exit' = -1
         /\ buf' = <<>>
         /\ pc = "globals" => (pc' = "name" /\ output'.Global = variables)
         /\ pc = "local" => (pc' = "next" /\ result' = Append(result, [f EXCEPT !.Local = variables]))
         /\ (pc = "globals" /\ nlines = 0) => output'.Global = NilMap]_vars

\* "n" ended the global loop after the pairs x 1 and k inf; "n" alone ended a local loop
C14_Witness ==
    /\ pc = "next" /\ text = no
    /\ DOMAIN output.Global.kv = {<<"x">>, <<"k">>}
    /\ result[1].Local = NilMap

\* C15: a line equal to the affirmative token, read by the variable loop or by
\* the command loop at any position, changes nothing but the position in the
\* input: the mapping, the command sequence, the document and the error stay
\* as they are and the same loop reads the next line, so the returned result
\* is the one of the input without such lines.
C15_AffirmativeNoOp ==
    [][((InVariables \/ pc = "commands") /\ GotLine /\ text' = yes) =>
         UNCHANGED <<pc, variables, commands, output, result, f, err, exit, created, doc, lost>>]_vars

\* "y" was read as the very first line of the command loop, after a global
\* pair and one file were collected
C15_Witness ==
    /\ pc = "commands" /\ text = yes /\ commands = <<>>
    /\ ~output.Global.isnil /\ Len(output.Files) = 1

\* C16: an accepted pair line (two parts around its single blank) stores the
\* type-inferred value of its second part under its first part: the mapping
\* then has one entry for that name, holding the value of this most recent
\* line, and the entries of all other names are the ones it had.
C16_Overwrite ==
    [][(InVariables /\ GotLine /\ text' \notin {yes, no} /\ Len(Split(text')) = 2) =>
         LET name == Split(text')[1]
             value == Split(text')[2]
         IN  /\ ~variables'.isnil
             /\ DOMAIN variables'.kv = DOMAIN variables.kv \cup {name}
             /\ variables'.kv[name] = format(value)
             /\ \A k \in DOMAIN variables.kv \ {name} : variables'.kv[k] = variables.kv[k]
             /\ pc' = pc /\ err' = "nil"]_vars

\* the third line read by the global loop is "x 7": x holds the integer 7
\* whatever it held, next to the entry of k
C16_Witness ==
    /\ pc = "globals" /\ nlines = 3 /\ buf = <<>>
    /\ text = <<"x", " ", "7">>
    /\ DOMAIN variables.kv = {<<"x">>, <<"k">>}
    /\ variables.kv[<<"x">>] = format(<<"7">>)
    /\ variables.kv[<<"k">>] = format(<<"i", "n", "f">>)

\* the stage a control position belongs to: globals, files, commands,
\* serialization, and the end of the run; the command line is parsed before
\* the first stage
Stage(p) ==
    CASE p = "flags" -> -1
      [] p = "globals" -> 0
      [] p \in {"name", "path", "template", "local", "next"} -> 1
      [] p = "commands" -> 2
      [] p = "output" -> 3
      [] OTHER -> 4

\* C17: a step stays in its stage, or moves to the next one in the order
\* globals, files, commands, serialization, or ends the run; the document is
\* written at most once, by the serialization, with no stage having returned
\* an error, and it is the assembled document; global is not modified after
\* the globals stage, files not after the files stage, commands not after the
\* commands stage.
C17_StagesInOrder ==
    [][/\ Stage(pc') \in {Stage(pc), Stage(pc) + 1, 4}
       /\ Stage(pc') = Stage(pc) + 1 /\ Stage(pc) < 3 => err' = "nil"
       /\ doc' # doc => (pc = "output" /\ err = "nil" /\ doc = <<>> /\ doc' = <<output>>)
       /\ created' # created => (pc = "output" /\ err = "nil" /\ ~created)
       /\ Stage(pc) >= 1 => output'.Global = output.Global
       /\ Stage(pc) >= 2 => output'.Files = output.Files
       /\ Stage(pc) >= 3 => output'.Cmds = output.Cmds]_vars

\* a run through the four stages that wrote a document with a global, a file
\* and a command
C17_Witness ==
    /\ pc = "exited" /\ exit = 0 /\ err = "nil" /\ doc = <<output>>
    /\ ~output.Global.isnil /\ Len(output.Files) = 1 /\ Len(output.Cmds) = 1

\* C18: the document parsed back from the JSON written is the document that
\* was serialized: the same keys, the same sequences in the same order, and
\* every value of the global and local maps with the type it had.
C18_RoundTrip == \A d \in Range(doc) : Decode(Encode(d)) = d

\* C19: no line of the input is lost between the readers: a line a buffered
\* scanner has read ahead when its loop stops is still seen by the reader
\* that follows, however many lines one read of the stream delivers.
C19_NoInputLost == lost = 0

\* a step takes something from the input (a line from the stream, a line a
\* scanner holds, the rest of a line left by a token scan) or leaves its prompt
Progress ==
    \/ nlines' > nlines
    \/ Len(buf') < Len(buf)
    \/ rest # <<>> /\ rest' # rest
    \/ pc' # pc

\* C20: on a finite input followed by its end the program eventually
\* terminates, with status 0 or 1 (with status 2 when flag.Parse rejected the
\* command line, before any input is read), and every step of the variable loop, the
\* file loop and the command loop consumes input or ends its loop or prompt.
C20_Termination ==
    /\ <>(pc = "exited" /\ exit \in (IF err = "flag: rejected" THEN {2} ELSE {0, 1}))
    /\ [][Progress]_vars

\* a run that ended at the end of an input of MaxLiveLines lines, after an
\* answer to "Add next file" had started a second file
C20_Witness == pc = "exited" /\ exit = 1 /\ eof /\ nlines = MaxLiveLines /\ Len(result) = 2
=============================================================================
